---- MODULE Spec2Model ----
(***************************************************************************)
(* A model of go-render (render.go): the per-format write operations of    *)
(* the renderer (JSON, XML, Data, Text, Status, Error, Redirect) and the   *)
(* HTML operation with its layout/yield mechanism, which installs the      *)
(* yield and current functions on the one shared template set.             *)
(*                                                                         *)
(* Byte strings (bodies, prefixes, template output, error texts) are       *)
(* sequences of string tokens; header values are strings.                  *)
(***************************************************************************)
EXTENDS Integers, Sequences, FiniteSets, TLC

(***************************************************************************)
(* Bounds of the model.                                                    *)
(***************************************************************************)
\* render calls issued in one behaviour
MaxCalls == 2
\* nested template executions one goroutine's stack holds before it overflows
MaxDepth == 3

(***************************************************************************)
(* Program constants (render.go:20-30, net/http).                          *)
(***************************************************************************)
ContentType == "Content-Type"
ContentBinary == "application/octet-stream"
ContentText == "text/plain"
ContentJSON == "application/json"
ContentHTML == "text/html"
ContentXHTML == "application/xhtml+xml"
ContentXML == "text/xml"
defaultCharset == "UTF-8"
StatusFound == 302
StatusInternalServerError == 500
\* capacity handed to NewBufferPool
PoolSize == 64

(***************************************************************************)
(* http.ResponseWriter: the header map, the status code written (0 while   *)
(* none is), the header as it was when the status went out, the body, and  *)
(* the log of the calls made on the writer, in order.                      *)
(***************************************************************************)
HeaderKeys == {"Content-Type", "X-Content-Type-Options", "Location"}

LogEntry(op, k, v, code, b) == [op |-> op, k |-> k, v |-> v, code |-> code, b |-> b]

\* a response nothing was written to; the caller may have set a Content-Type
NewResponse(preset) ==
    [header |-> [h \in HeaderKeys |-> IF h = ContentType THEN preset ELSE ""],
     code |-> 0,
     sent |-> [h \in HeaderKeys |-> ""],
     body |-> <<>>,
     log |-> <<>>]

\* w.Header().Set(k, v)
HeaderSet(w, k, v) ==
    [w EXCEPT !.header[k] = v,
              !.log = Append(@, LogEntry("Header.Set", k, v, 0, <<>>))]

\* w.WriteHeader(code): the first call sends the header as it stands, a later
\* one is superfluous and changes nothing
WriteHeader(w, code) ==
    IF w.code # 0
    THEN [w EXCEPT !.log = Append(@, LogEntry("WriteHeader", "", "", code, <<>>))]
    ELSE [w EXCEPT !.code = code,
                   !.sent = w.header,
                   !.log = Append(@, LogEntry("WriteHeader", "", "", code, <<>>))]

\* w.Write(b): sends status 200 first when no status was written
Write(w, b) ==
    LET w1 == IF w.code = 0
              THEN [w EXCEPT !.code = 200, !.sent = w.header]
              ELSE w
    IN [w1 EXCEPT !.body = @ \o b,
                  !.log = Append(@, LogEntry("Write", "", "", 0, b))]

\* http.Error(w, msg, code): plain-text content type, nosniff, the status, and
\* the message followed by a newline
HttpError(w, msg, code) ==
    LET w1 == HeaderSet(w, ContentType, "text/plain; charset=utf-8")
        w2 == HeaderSet(w1, "X-Content-Type-Options", "nosniff")
        w3 == WriteHeader(w2, code)
    IN Write(w3, msg \o <<"\n">>)

\* http.Redirect(w, req, location, code)
HttpRedirect(w, location, code) ==
    LET w1 == [w EXCEPT !.header["Location"] = location,
                        !.log = Append(@, LogEntry("Redirect", "Location", location, code, <<>>))]
    IN [w1 EXCEPT !.code = IF w.code = 0 THEN code ELSE w.code,
                  !.sent = IF w.code = 0 THEN w1.header ELSE w.sent]

(***************************************************************************)
(* Configuration.                                                          *)
(***************************************************************************)
\* the Options values handed to Renderer
UserOptions ==
    [Layout : {"", "layout"},
     Charset : {"", "GBK"},
     IndentJSON : {FALSE},
     IndentXML : {FALSE},
     PrefixJSON : {<<>>},
     PrefixXML : {<<>>},
     HTMLContentType : {""}]
    \cup
    [Layout : {"", "layout"},
     Charset : {"GBK"},
     IndentJSON : {TRUE},
     IndentXML : {TRUE},
     PrefixJSON : {<<"while(1);">>},
     PrefixXML : {<<"<?xml?>">>},
     HTMLContentType : {ContentXHTML}]

\* prepareCharset without the default
prepareCharsetNoDefault(charset) == "; charset=" \o charset

prepareCharset(charset) ==
    IF charset # ""
    THEN "; charset=" \o charset
    ELSE "; charset=" \o defaultCharset

prepareOptions(o) ==
    [o EXCEPT !.HTMLContentType = IF o.HTMLContentType = "" THEN ContentHTML ELSE @]

(***************************************************************************)
(* Marshaling (encoding/json, encoding/xml): a value either marshals to    *)
(* its bytes, compact or indented, or fails with the encoder's error.      *)
(***************************************************************************)
\* values handed to JSON and XML; "chan" is a value no encoder supports
Values == {"v1", "v2", "chan"}

Marshal(format, indent, v) ==
    IF v = "chan"
    THEN [err |-> <<format \o ": unsupported type: chan int">>, result |-> <<>>]
    ELSE [err |-> <<>>,
          result |-> IF indent THEN <<format, "{\n  ", v, "\n}">> ELSE <<format, "{", v, "}">>]

(***************************************************************************)
(* The template set compiled at startup: each template is a sequence of    *)
(* nodes.  A text node writes its text, a data node writes a field of the  *)
(* binding, yield and current call the functions of that name, and a fail  *)
(* node is an action whose evaluation raises a runtime error.              *)
(***************************************************************************)
Node(k, s) == [k |-> k, s |-> s]

TemplateSet ==
    [layout |-> <<Node("text", "<html>"), Node("current", ""), Node("yield", ""), Node("text", "</html>")>>,
     page   |-> <<Node("text", "<h1>"), Node("data", "")>>,
     about  |-> <<Node("data", ""), Node("text", "<h2>")>>,
     bad    |-> <<Node("text", "<p>"), Node("fail", "")>>,
     inner  |-> <<Node("current", ""), Node("yield", "")>>]

TemplateNames == DOMAIN TemplateSet

\* names a caller may ask for: the compiled templates and one that is not there
Names == TemplateNames \cup {"missing"}

Bindings == {"b1", "b2"}

Statuses == {200, 404}

\* the Content-Type a caller may have set before the call
Presets == {"", "image/png"}

\* the per-call HTMLOptions lists (each entry is the Layout of an HTMLOptions)
HTMLOptionLists == {<<>>, <<"">>, <<"layout">>, <<"missing">>, <<"", "layout">>}

(***************************************************************************)
(* helperFuncs: the yield and current every template is compiled with.  A  *)
(* function is a closure: layout = FALSE is the helper, layout = TRUE the  *)
(* one addYield builds, which captures a template name and a binding.      *)
(***************************************************************************)
Closure(layout, name, binding) == [layout |-> layout, name |-> name, binding |-> binding]

helperFuncs == [yield |-> Closure(FALSE, "", ""), current |-> Closure(FALSE, "", "")]

(***************************************************************************)
(* State.                                                                  *)
(***************************************************************************)
\* the goroutines serving requests
Procs == {1, 2}

VARIABLES
    opt,              \* r.opt: the resolved Options
    compiledCharset,  \* r.compiledCharset
    funcs,            \* the function map of the shared template set r.t
    buffer,           \* the buffer pool: buffers in the pool, buffers checked out
    pc,               \* where each goroutine is in its call
    req,              \* the arguments of each goroutine's call
    call,             \* the local variables of each goroutine's HTML call
    stack,            \* the template executions each goroutine is in, outermost first
    w,                \* each goroutine's ResponseWriter
    calls,            \* render calls issued so far
    tree,             \* compile: the directory tree, its separator, opt.Extensions
    walk,             \* compile: where filepath.Walk is and what it has yet to visit
    t                 \* compile: the templates of the set under construction

vars == <<opt, compiledCharset, funcs, buffer, pc, req, call, stack, w, calls,
          tree, walk, t>>

NoReq == [op |-> "", status |-> 0, name |-> "", binding |-> "", htmlOpt |-> <<>>,
          v |-> <<>>, preset |-> "", codes |-> <<>>]

NoCall == [name |-> "", layout |-> "", addYield |-> FALSE, funcs0 |-> helperFuncs,
           err |-> <<>>, yields |-> <<>>, currents |-> <<>>, gets |-> 0, puts |-> 0]

Request(op, status, name, binding, htmlOpt, v, preset) ==
    [op |-> op, status |-> status, name |-> name, binding |-> binding,
     htmlOpt |-> htmlOpt, v |-> v, preset |-> preset, codes |-> <<>>]

\* Renderer(options...): resolve the options and the charset, compile the
\* templates with helperFuncs, make the pool
Renderer(o) ==
    /\ opt = prepareOptions(o)
    /\ compiledCharset = prepareCharset(o.Charset)
    /\ funcs = helperFuncs
    /\ buffer = [free |-> 0, out |-> 0]

\* the goroutines are idle and no call was made
Idle ==
    /\ pc = [p \in Procs |-> "idle"]
    /\ req = [p \in Procs |-> NoReq]
    /\ call = [p \in Procs |-> NoCall]
    /\ stack = [p \in Procs |-> <<>>]
    /\ w = [p \in Procs |-> NewResponse("")]
    /\ calls = 0

\* the template set is the fixed TemplateSet; no construction is under way
Constructed ==
    /\ tree = [Separator |-> "/", Extensions |-> <<>>, files |-> {}]
    /\ walk = [state |-> "none", todo |-> <<>>]
    /\ t = {}

Init ==
    /\ \E o \in UserOptions : Renderer(o)
    /\ Idle
    /\ Constructed

\* the process died of a goroutine stack overflow
Crashed == \E p \in Procs : pc[p] = "overflow"

\* goroutine p may start a call
CanCall(p) ==
    /\ ~Crashed
    /\ pc[p] = "idle"
    /\ calls < MaxCalls

\* a call that runs to its end in one step: record it and its response
Finish(p, r, resp) ==
    /\ pc' = [pc EXCEPT ![p] = "done"]
    /\ req' = [req EXCEPT ![p] = r]
    /\ w' = [w EXCEPT ![p] = resp]
    /\ calls' = calls + 1
    /\ UNCHANGED <<tree, walk, t, opt, compiledCharset, funcs, buffer, call, stack>>

(***************************************************************************)
(* The one-step operations.                                                *)
(***************************************************************************)
\* JSON and XML were the header and the status written before the error check
WriteMarshaledEarly(w0, status, ctype, prefix, m) ==
    LET w1 == HeaderSet(w0, ContentType, ctype \o compiledCharset)
        w2 == WriteHeader(w1, status)
        w3 == IF Len(prefix) > 0 THEN Write(w2, prefix) ELSE w2
    IN IF m.err # <<>> THEN HttpError(w2, m.err, 500) ELSE Write(w3, m.result)

\* the writes of JSON and XML once the value is marshaled
WriteMarshaled(w0, status, ctype, prefix, m) ==
    IF m.err # <<>>
    THEN HttpError(w0, m.err, 500)
    ELSE LET w1 == HeaderSet(w0, ContentType, ctype \o compiledCharset)
             w2 == WriteHeader(w1, status)
             w3 == IF Len(prefix) > 0 THEN Write(w2, prefix) ELSE w2
         IN Write(w3, m.result)

JSON(p) ==
    \E status \in Statuses, v \in Values, preset \in Presets :
        /\ CanCall(p)
        /\ Finish(p, Request("JSON", status, "", "", <<>>, <<v>>, preset),
                  WriteMarshaled(NewResponse(preset), status, ContentJSON, opt.PrefixJSON,
                                 Marshal("json", opt.IndentJSON, v)))

XML(p) ==
    \E status \in Statuses, v \in Values, preset \in Presets :
        /\ CanCall(p)
        /\ Finish(p, Request("XML", status, "", "", <<>>, <<v>>, preset),
                  WriteMarshaled(NewResponse(preset), status, ContentXML, opt.PrefixXML,
                                 Marshal("xml", opt.IndentXML, v)))

\* the bodies handed to Data and Text
Payloads == {<<>>, <<"raw">>}

\* Data and Text were the Content-Type set whatever the header holds
WriteVerbatimOverride(w0, status, ctype, v) ==
    Write(WriteHeader(HeaderSet(w0, ContentType, ctype), status), v)

\* the writes of Data and Text: a default Content-Type only when none is set
WriteVerbatim(w0, status, ctype, v) ==
    LET w1 == IF w0.header[ContentType] = "" THEN HeaderSet(w0, ContentType, ctype) ELSE w0
        w2 == WriteHeader(w1, status)
    IN Write(w2, v)

Data(p) ==
    \E status \in Statuses, v \in Payloads, preset \in Presets :
        /\ CanCall(p)
        /\ Finish(p, Request("Data", status, "", "", <<>>, v, preset),
                  WriteVerbatim(NewResponse(preset), status, ContentBinary, v))

Text(p) ==
    \E status \in Statuses, v \in Payloads, preset \in Presets :
        /\ CanCall(p)
        /\ Finish(p, Request("Text", status, "", "", <<>>, v, preset),
                  WriteVerbatim(NewResponse(preset), status, ContentText \o compiledCharset, v))

\* Status, and Error of the instance API: the status line only
Status(p) ==
    \E status \in Statuses :
        /\ CanCall(p)
        /\ Finish(p, Request("Status", status, "", "", <<>>, <<>>, ""),
                  WriteHeader(NewResponse(""), status))

\* Error of the function API: the status line and a body
Error(p) ==
    \E status \in Statuses, v \in Payloads :
        /\ CanCall(p)
        /\ Finish(p, Request("Error", status, "", "", <<>>, v, ""),
                  Write(WriteHeader(NewResponse(""), status), v))

\* the status lists handed to the variadic Redirect of the instance API
StatusLists == {<<>>, <<301>>, <<307>>, <<301, 307>>}

\* the status handed to Redirect of the function API (0: none)
RedirectStatuses == {0, 301, 307}

Locations == {"/login"}

\* renderer.Redirect were the status list ignored
RedirectCodeFound(status) == StatusFound

\* renderer.Redirect: the code is 302 unless exactly one status is given
RedirectCode(status) ==
    IF Len(status) = 1 THEN status[1] ELSE StatusFound

\* Redirect of the function API: the code is 302 unless the status is not 0
RedirectCodeOf(status) ==
    IF status # 0 THEN status ELSE StatusFound

Redirect(p) ==
    \E location \in Locations, status \in StatusLists :
        /\ CanCall(p)
        /\ Finish(p, [Request("Redirect", 0, location, "", <<>>, <<>>, "") EXCEPT !.codes = status],
                  HttpRedirect(NewResponse(""), location, RedirectCode(status)))

RedirectFunc(p) ==
    \E location \in Locations, status \in RedirectStatuses :
        /\ CanCall(p)
        /\ Finish(p, Request("RedirectFunc", status, location, "", <<>>, <<>>, ""),
                  HttpRedirect(NewResponse(""), location, RedirectCodeOf(status)))

\* the handler returns and the goroutine is free for the next request
Return(p) ==
    /\ ~Crashed
    /\ pc[p] = "done"
    /\ pc' = [pc EXCEPT ![p] = "idle"]
    /\ req' = [req EXCEPT ![p] = NoReq]
    /\ call' = [call EXCEPT ![p] = NoCall]
    /\ w' = [w EXCEPT ![p] = NewResponse("")]
    /\ UNCHANGED <<tree, walk, t, opt, compiledCharset, funcs, buffer, stack, calls>>

(***************************************************************************)
(* The buffer pool: Get takes a buffer from the pool or allocates one, Put *)
(* gives one back (dropped when the pool is full).  out counts the buffers *)
(* checked out and not returned.                                           *)
(***************************************************************************)
BufferGet(b) == [free |-> IF b.free > 0 THEN b.free - 1 ELSE 0, out |-> b.out + 1]

BufferPut(b) == [free |-> IF b.free < PoolSize THEN b.free + 1 ELSE b.free, out |-> b.out - 1]

(***************************************************************************)
(* Template execution.  A frame is one ExecuteTemplate in progress: the    *)
(* template, the binding, the next node and the buffer it writes to.       *)
(***************************************************************************)
Frame(name, binding) == [name |-> name, binding |-> binding, pos |-> 1, buf |-> <<>>]

\* the bytes a string writes: none when it is empty
Emit(s) == IF s = "" THEN <<>> ELSE <<s>>

\* the error of ExecuteTemplate for a name the set does not hold
Undefined(name) == <<"html/template: ", name, " is undefined">>

\* the error of the yield helper
NoLayout == <<"yield called with no layout defined">>

\* the error of a fail node of template name
RuntimeError(name) == <<"template: " \o name \o ": runtime error">>

\* error e of a yield call made by the innermost frame of st, as the outermost
\* ExecuteTemplate returns it: each execution on the way out wraps it, and
\* each yield closure hands it on
RECURSIVE Unwind(_, _)
Unwind(st, e) ==
    IF st = <<>>
    THEN e
    ELSE Unwind(SubSeq(st, 1, Len(st) - 1),
                <<"template: " \o st[Len(st)].name \o ": error calling yield: ">> \o e)

\* the innermost execution is over when it is past its last node
Over(st) == st[Len(st)].pos > Len(TemplateSet[st[Len(st)].name])

\* pop the executions that are over: a yield closure returns its buffer's
\* content, which the calling execution writes before it goes on
RECURSIVE Settle(_)
Settle(st) ==
    IF Len(st) = 1 \/ ~Over(st)
    THEN st
    ELSE LET n == Len(st)
             parent == [st[n - 1] EXCEPT !.buf = @ \o st[n].buf, !.pos = @ + 1]
         IN Settle(SubSeq(st, 1, n - 2) \o <<parent>>)

\* the innermost execution writes out and moves to its next node
Advance(st, out) ==
    Settle([st EXCEPT ![Len(st)] = [@ EXCEPT !.buf = @ \o out, !.pos = @ + 1]])

(***************************************************************************)
(* HTML.                                                                   *)
(***************************************************************************)
\* prepareHTMLOptions were an empty per-call Layout to fall back on the default
prepareHTMLOptionsFallback(htmlOpt) ==
    IF Len(htmlOpt) > 0 /\ htmlOpt[1] # "" THEN htmlOpt[1] ELSE opt.Layout

\* the Layout of the HTMLOptions in effect
prepareHTMLOptions(htmlOpt) ==
    IF Len(htmlOpt) > 0 THEN htmlOpt[1] ELSE opt.Layout

\* addYield's function map were yield to capture the name and not the binding
YieldFuncsNoBinding(name, binding) ==
    [yield |-> Closure(TRUE, name, ""), current |-> Closure(TRUE, name, "")]

\* the function map addYield installs
YieldFuncs(name, binding) ==
    [yield |-> Closure(TRUE, name, binding), current |-> Closure(TRUE, name, "")]

\* HTML's error path were the Content-Type set before the template is executed
HTMLFailAfterHeader(w0, e) ==
    HttpError(HeaderSet(w0, ContentType, opt.HTMLContentType \o compiledCharset), e,
              StatusInternalServerError)

\* HTML, on execute's error: the 500 response, and the buffer is dropped
HTMLFail(w0, e) == HttpError(w0, e, StatusInternalServerError)

\* HTML, once execute returned buf: content type, status, the buffer's bytes
HTMLWrite(w0, status, buf) ==
    LET w1 == HeaderSet(w0, ContentType, opt.HTMLContentType \o compiledCharset)
        w2 == WriteHeader(w1, status)
    IN Write(w2, buf)

\* HTML up to its first use of the shared template set
HTMLCall(p, status, name, binding, htmlOpt) ==
        /\ CanCall(p)
        /\ pc' = [pc EXCEPT ![p] = IF prepareHTMLOptions(htmlOpt) # "" THEN "addYield" ELSE "execute"]
        /\ req' = [req EXCEPT ![p] = Request("HTML", status, name, binding, htmlOpt, <<>>, "")]
        /\ call' = [call EXCEPT ![p] = [NoCall EXCEPT !.name = name,
                                                      !.layout = prepareHTMLOptions(htmlOpt),
                                                      !.funcs0 = funcs]]
        /\ w' = [w EXCEPT ![p] = NewResponse("")]
        /\ calls' = calls + 1
        /\ UNCHANGED <<tree, walk, t, opt, compiledCharset, funcs, buffer, stack>>

HTML(p) ==
    \E status \in Statuses, name \in Names, binding \in Bindings, htmlOpt \in HTMLOptionLists :
        HTMLCall(p, status, name, binding, htmlOpt)

\* the HTML calls of the overlapping goroutines
OverlapNames == {"page", "about", "inner", "missing"}

OverlapOptionLists == {<<>>, <<"">>, <<"layout">>}

HTMLOverlap(p) ==
    \E name \in OverlapNames, binding \in Bindings, htmlOpt \in OverlapOptionLists :
        HTMLCall(p, 200, name, binding, htmlOpt)

\* r.addYield(name, binding); name = opt.Layout
addYield(p) ==
    /\ ~Crashed
    /\ pc[p] = "addYield"
    /\ funcs' = YieldFuncs(call[p].name, req[p].binding)
    /\ call' = [call EXCEPT ![p] = [@ EXCEPT !.name = call[p].layout, !.addYield = TRUE]]
    /\ pc' = [pc EXCEPT ![p] = "execute"]
    /\ UNCHANGED <<tree, walk, t, opt, compiledCharset, buffer, req, stack, w, calls>>

\* what a stretch of template execution comes to: kind is "run" (the
\* execution goes on), "ok" (the outermost execution is over), "err" (the
\* outermost execution returns err) or "overflow"; got counts the buffers
\* taken from the pool, yields and currents the closures called
Outcome(kind, st, err, got, yields, currents) ==
    [kind |-> kind, st |-> st, err |-> err, got |-> got, yields |-> yields,
     currents |-> currents]

\* the outermost execution is past its last node
Complete(st) == Len(st) = 1 /\ Over(st)

\* the nodes that touch nothing but the execution's own buffer
LocalKinds == {"text", "data"}

\* run the text and data nodes up to the next call of yield or current, the
\* next fail node, or the end of the outermost execution
RECURSIVE RunLocal(_)
RunLocal(st) ==
    IF Complete(st)
    THEN st
    ELSE LET top == st[Len(st)]
             node == TemplateSet[top.name][top.pos]
         IN IF node.k \notin LocalKinds
            THEN st
            ELSE RunLocal(Advance(st, Emit(IF node.k = "text" THEN node.s ELSE top.binding)))

Moved(st, got, yields, currents) ==
    LET st1 == RunLocal(st)
    IN Outcome(IF Complete(st1) THEN "ok" ELSE "run", st1, <<>>, got, yields, currents)

\* current as it would be were addYield to install yield alone
CallCurrentHelperOnly(cl) == ""

\* current: the helper returns "", addYield's closure the name it captured
CallCurrent(cl) == IF cl.layout THEN cl.name ELSE ""

\* yield: the helper fails; addYield's closure runs r.execute(name, binding),
\* a buffer from the pool and the execution of the captured template, and
\* returns the buffer's content with execute's error
CallYield(st, cl) ==
    IF ~cl.layout
    THEN Outcome("err", st, Unwind(st, NoLayout), 0, <<cl>>, <<>>)
    ELSE IF cl.name \notin TemplateNames
    THEN Outcome("err", st, Unwind(st, Undefined(cl.name)), 1, <<cl>>, <<>>)
    ELSE IF Len(st) >= MaxDepth
    THEN Outcome("overflow", st, <<>>, 1, <<cl>>, <<>>)
    ELSE Moved(Settle(Append(st, Frame(cl.name, cl.binding))), 1, <<cl>>, <<>>)

\* the node the innermost execution is at, a call of yield or current or a
\* fail node, under function map fns, and the local nodes after it
StepNode(st, fns) ==
    LET top == st[Len(st)]
        node == TemplateSet[top.name][top.pos]
    IN CASE node.k = "current" ->
                Moved(Advance(st, Emit(CallCurrent(fns.current))), 0, <<>>, <<fns.current>>)
         [] node.k = "yield" -> CallYield(st, fns.yield)
         [] node.k = "fail" ->
                Outcome("err", st, Unwind(SubSeq(st, 1, Len(st) - 1), RuntimeError(top.name)),
                        0, <<>>, <<>>)

\* HTML's r.execute(name, binding): the buffer is taken by the caller; the
\* lookup of the template and the nodes up to its first function call
ExecuteTemplate(name, binding) ==
    IF name \in TemplateNames
    THEN Moved(<<Frame(name, binding)>>, 1, <<>>, <<>>)
    ELSE Outcome("err", <<>>, Undefined(name), 1, <<>>, <<>>)

\* the pool after HTML's last line: the buffer goes back once the body is out
HTMLPut(b) == BufferPut(b)

\* the pool when HTML returns on execute's error
HTMLFailPut(b) == b

\* where outcome o leaves goroutine p: HTML goes on executing, or writes its
\* response and returns, or the stack overflows
Proceed(p, o) ==
    LET b == IF o.got = 1 THEN BufferGet(buffer) ELSE buffer
    IN /\ call' = [call EXCEPT ![p] = [@ EXCEPT !.gets = @ + o.got,
                                                !.puts = IF o.kind = "ok" THEN @ + b.out - HTMLPut(b).out
                                                         ELSE IF o.kind = "err" THEN @ + b.out - HTMLFailPut(b).out
                                                         ELSE @,
                                                !.err = o.err,
                                                !.yields = @ \o o.yields,
                                                !.currents = @ \o o.currents]]
       /\ CASE o.kind = "run" ->
                 /\ stack' = [stack EXCEPT ![p] = o.st]
                 /\ pc' = [pc EXCEPT ![p] = "run"]
                 /\ w' = w
                 /\ buffer' = b
            [] o.kind = "ok" ->
                 /\ stack' = [stack EXCEPT ![p] = <<>>]
                 /\ pc' = [pc EXCEPT ![p] = "done"]
                 /\ w' = [w EXCEPT ![p] = HTMLWrite(w[p], req[p].status, o.st[1].buf)]
                 /\ buffer' = HTMLPut(b)
            [] o.kind = "err" ->
                 /\ stack' = [stack EXCEPT ![p] = <<>>]
                 /\ pc' = [pc EXCEPT ![p] = "done"]
                 /\ w' = [w EXCEPT ![p] = HTMLFail(w[p], o.err)]
                 /\ buffer' = HTMLFailPut(b)
            [] o.kind = "overflow" ->
                 /\ stack' = stack
                 /\ pc' = [pc EXCEPT ![p] = "overflow"]
                 /\ w' = w
                 /\ buffer' = b
       /\ UNCHANGED <<tree, walk, t, opt, compiledCharset, funcs, req, calls>>

\* buf, err := r.execute(name, binding), up to the first function call
execute(p) ==
    /\ ~Crashed
    /\ pc[p] = "execute"
    /\ Proceed(p, ExecuteTemplate(call[p].name, req[p].binding))

\* the next function call of the template execution of goroutine p
ExecStep(p) ==
    /\ ~Crashed
    /\ pc[p] = "run"
    /\ Proceed(p, StepNode(stack[p], funcs))

(***************************************************************************)
(* Template set construction (compile).  A path is the sequence of its     *)
(* pieces: the names, "." and the separator of the operating system.  The  *)
(* files have bodies that parse and are not empty.                         *)
(***************************************************************************)
\* the most files a directory tree holds
MaxFiles == 3

\* os.PathSeparator: Unix, Windows
Separators == {"/", "\\"}

\* the files a tree may hold, written with "/", in the order Walk visits them
TreeFiles ==
    << <<"README">>,
       <<"a", ".", "html">>,
       <<"a", ".", "tmpl">>,
       <<"b", ".", "txt">>,
       <<"base", "/", "header", ".", "tmpl">>,
       <<"c", ".", "min", ".", "tmpl">>,
       <<"d", ".", "tmpl", "/", "e", ".", "tmpl">>,
       <<"v1", ".", "0", "/", "index", ".", "tmpl">> >>

\* the values of Options.Extensions
ExtensionLists ==
    { <<>>,
      << <<".", "tmpl">> >>,
      << <<".", "html">> >>,
      << <<".", "tmpl">>, <<".", "html">> >>,
      << <<".", "min", ".", "tmpl">>, <<".", "txt">> >> }

\* opt.Directory after prepareOptions: the name of the root template
Directory == <<"templates">>

\* prepareOptions: the default of Extensions
defaultExtensions(extensions) ==
    IF Len(extensions) = 0 THEN << <<".", "tmpl">> >> ELSE extensions

\* a path of TreeFiles as the operating system spells it
OSPath(s, sep) == [i \in DOMAIN s |-> IF s[i] = "/" THEN sep ELSE s[i]]

\* filepath.ToSlash
ToSlash(s, sep) == [i \in DOMAIN s |-> IF s[i] = sep THEN "/" ELSE s[i]]

RECURSIVE IndexFrom(_, _, _)
\* the index, counted from 0, of the first c in s at or after piece i; -1 if none
IndexFrom(s, c, i) ==
    IF i > Len(s) THEN -1
    ELSE IF s[i] = c THEN i - 1
    ELSE IndexFrom(s, c, i + 1)

\* strings.Index
Index(s, c) == IndexFrom(s, c, 1)

RECURSIVE LastIndexFrom(_, _, _)
\* strings.LastIndex
LastIndexFrom(s, c, i) ==
    IF i < 1 THEN -1
    ELSE IF s[i] = c THEN i - 1
    ELSE LastIndexFrom(s, c, i - 1)

RECURSIVE Split(_, _)
\* strings.Split
Split(s, c) ==
    LET i == Index(s, c)
    IN IF i = -1
       THEN <<s>>
       ELSE <<SubSeq(s, 1, i)>> \o Split(SubSeq(s, i + 2, Len(s)), c)

RECURSIVE Join(_, _)
\* strings.Join
Join(a, c) ==
    IF Len(a) = 0 THEN <<>>
    ELSE IF Len(a) = 1 THEN a[1]
    ELSE a[1] \o <<c>> \o Join(Tail(a), c)

\* getExt taking the extension from the last "."
getExtLast(s) ==
    IF LastIndexFrom(s, ".", Len(s)) = -1
    THEN <<>>
    ELSE SubSeq(s, LastIndexFrom(s, ".", Len(s)) + 1, Len(s))

getExt(s) ==
    IF Index(s, ".") = -1
    THEN <<>>
    ELSE <<".">> \o Join(Tail(Split(s, ".")), ".")

\* the directory a file of TreeFiles is in; <<>> for the root
DirOf(f) == IF Index(f, "/") = -1 THEN <<>> ELSE SubSeq(f, 1, Index(f, "/"))

RECURSIVE WalkFrom(_, _, _)
\* what Walk visits from TreeFiles[i] on, of the files numbered in present:
\* a directory before the files in it, each with its path relative to the root
WalkFrom(present, sep, i) ==
    IF i > Len(TreeFiles) THEN <<>>
    ELSE IF i \notin present THEN WalkFrom(present, sep, i + 1)
    ELSE LET f == TreeFiles[i]
             first == \A j \in present : j < i => DirOf(TreeFiles[j]) # DirOf(f)
             d == IF DirOf(f) # <<>> /\ first
                  THEN <<[path |-> DirOf(f), isDir |-> TRUE]>>
                  ELSE <<>>
         IN d \o <<[path |-> OSPath(f, sep), isDir |-> FALSE]>>
              \o WalkFrom(present, sep, i + 1)

\* filepath.Walk(dir, ...): the root, whose relative path is ".", comes first
Walk(present, sep) ==
    <<[path |-> <<".">>, isDir |-> TRUE]>> \o WalkFrom(present, sep, 1)

\* compile up to the call of Walk: the root template, named after the
\* directory, is parsed from "TMPL"; no file stands behind it
compile(present, sep, extensions) ==
    /\ tree = [Separator |-> sep,
               Extensions |-> defaultExtensions(extensions),
               files |-> {OSPath(TreeFiles[i], sep) : i \in present}]
    /\ walk = [state |-> "walking", todo |-> Walk(present, sep)]
    /\ t = {[name |-> Directory, file |-> <<>>]}

\* Renderer is compiling the templates of some tree
InitCompile ==
    /\ \E o \in {u \in UserOptions : u.Layout = "" /\ u.Charset = ""} : Renderer(o)
    /\ Idle
    /\ \E present \in {x \in SUBSET DOMAIN TreeFiles : Cardinality(x) <= MaxFiles},
          sep \in Separators, extensions \in ExtensionLists :
            compile(present, sep, extensions)

\* tmpl := t.New(name) and the Parse of the file into it: the set holds one
\* template under a name, so a template already under it is replaced
New(set, name, file) ==
    {e \in set : e.name # name} \cup {[name |-> name, file |-> file]}

\* the function compile hands to Walk, called for the next file or directory:
\* an extension of the list that equals getExt of the relative path has the
\* entry read and registered, and reading a directory panics
walkFn ==
    /\ walk.state = "walking"
    /\ walk.todo # <<>>
    /\ LET entry == Head(walk.todo)
           r == entry.path
           ext == getExt(r)
           name == SubSeq(r, 1, Len(r) - Len(ext))
       IN IF \E i \in DOMAIN tree.Extensions : ext = tree.Extensions[i]
          THEN IF entry.isDir
               THEN /\ walk' = [walk EXCEPT !.state = "panic"]
                    /\ t' = t
               ELSE /\ walk' = [walk EXCEPT !.todo = Tail(@)]
                    /\ t' = New(t, ToSlash(name, tree.Separator), r)
          ELSE /\ walk' = [walk EXCEPT !.todo = Tail(@)]
               /\ t' = t
    /\ UNCHANGED <<tree, opt, compiledCharset, funcs, buffer, pc, req, call, stack, w, calls>>

\* Walk has visited everything: compile returns t
compileReturn ==
    /\ walk.state = "walking"
    /\ walk.todo = <<>>
    /\ walk' = [walk EXCEPT !.state = "compiled"]
    /\ UNCHANGED <<tree, t, opt, compiledCharset, funcs, buffer, pc, req, call, stack, w, calls>>

(***************************************************************************)
(* Specifications.  Spec: one goroutine serves the requests one after the  *)
(* other.  SpecOverlap: two goroutines serve HTML requests at once.        *)
(***************************************************************************)
Next ==
    \/ JSON(1)
    \/ XML(1)
    \/ Data(1)
    \/ Text(1)
    \/ Status(1)
    \/ Error(1)
    \/ Redirect(1)
    \/ RedirectFunc(1)
    \/ HTML(1)
    \/ addYield(1)
    \/ execute(1)
    \/ ExecStep(1)
    \/ Return(1)

Spec == Init /\ [][Next]_vars

\* each of the two goroutines serves one HTML request
InitOverlap ==
    /\ \E o \in {u \in UserOptions : u.Charset = ""} : Renderer(o)
    /\ Idle
    /\ Constructed

NextOverlap ==
    \E p \in Procs :
        \/ HTMLOverlap(p)
        \/ addYield(p)
        \/ execute(p)
        \/ ExecStep(p)

SpecOverlap == InitOverlap /\ [][NextOverlap]_vars

\* the construction of the template set, over every tree and extension list
NextCompile ==
    \/ walkFn
    \/ compileReturn

SpecCompile == InitCompile /\ [][NextCompile]_vars

(***************************************************************************)
(* What the claims speak of.                                               *)
(***************************************************************************)
\* goroutine p has finished a call of operation op
Did(p, op) == pc[p] = "done" /\ req[p].op = op

\* the layout in effect for the HTML call of goroutine p
LayoutInEffect(p) ==
    IF Len(req[p].htmlOpt) > 0 THEN req[p].htmlOpt[1] ELSE opt.Layout

\* the charset suffix of a Content-Type
CharsetSuffix == "; charset=" \o (IF opt.Charset = "" THEN "UTF-8" ELSE opt.Charset)

\* the kinds of the nodes of template name
Kinds(name) == {TemplateSet[name][i].k : i \in DOMAIN TemplateSet[name]}

\* template name writes text and data and asks for current at most
Plain(name) == name \in TemplateNames /\ Kinds(name) \subseteq {"text", "data", "current"}

\* the output of executing plain template name with binding, current giving cur
RECURSIVE PlainOutput(_, _, _, _)
PlainOutput(name, binding, cur, i) ==
    IF i > Len(TemplateSet[name])
    THEN <<>>
    ELSE LET node == TemplateSet[name][i]
         IN (CASE node.k = "text" -> Emit(node.s)
               [] node.k = "data" -> Emit(binding)
               [] node.k = "current" -> Emit(cur))
            \o PlainOutput(name, binding, cur, i + 1)

\* the output of executing template layout with binding, each yield replaced
\* by inner and each current giving cur
RECURSIVE Substituted(_, _, _, _, _)
Substituted(layout, binding, cur, inner, i) ==
    IF i > Len(TemplateSet[layout])
    THEN <<>>
    ELSE LET node == TemplateSet[layout][i]
         IN (CASE node.k = "text" -> Emit(node.s)
               [] node.k = "data" -> Emit(binding)
               [] node.k = "current" -> Emit(cur)
               [] node.k = "yield" -> inner)
            \o Substituted(layout, binding, cur, inner, i + 1)

(***************************************************************************)
(* C1.  An HTML call with a layout in effect that does not overlap another *)
(* call: when the layout and the target execute without error, the status  *)
(* is the requested one and the body is the output of the layout template  *)
(* with every yield replaced by the output of the target template executed *)
(* with the same binding, and with every current giving the target's name. *)
(***************************************************************************)
C1_LayoutEmbedsTarget ==
    \A p \in Procs :
        LET lay == LayoutInEffect(p)
            name == req[p].name
            binding == req[p].binding
        IN (/\ Did(p, "HTML")
            /\ lay \in TemplateNames
            /\ "fail" \notin Kinds(lay)
            /\ Plain(name))
           => /\ w[p].code = req[p].status
              /\ w[p].body = Substituted(lay, binding, name,
                                         PlainOutput(name, binding, name, 1), 1)

\* a layout render of page over function maps an earlier layout render left
C1_Witness ==
    /\ Did(1, "HTML")
    /\ LayoutInEffect(1) = "layout"
    /\ req[1].name = "page"
    /\ req[1].binding = "b2"
    /\ call[1].funcs0.yield = Closure(TRUE, "about", "b1")
    /\ w[1].body = <<"<html>", "page", "<h1>", "b2", "</html>">>

(***************************************************************************)
(* C2.  Two HTML calls with a layout in effect that overlap on the shared  *)
(* template set: the yield and the current a call's layout execution       *)
(* invokes are the closures some call's addYield installed, its own or the *)
(* other's, and the body embeds the target and the binding that closure    *)
(* captured.  The witness is the interleaving in which the response of one *)
(* call embeds the inner content of the other.                             *)
(***************************************************************************)
C2_BodyFollowsInstalledClosures ==
    \A p \in Procs :
        (/\ Did(p, "HTML")
         /\ LayoutInEffect(p) \in TemplateNames
         /\ call[p].err = <<>>
         /\ Len(call[p].yields) = 1
         /\ Len(call[p].currents) = 1)
        => \E q \in Procs, c \in Procs :
              /\ call[q].addYield
              /\ call[c].addYield
              /\ call[p].yields[1] = Closure(TRUE, req[q].name, req[q].binding)
              /\ call[p].currents[1] = Closure(TRUE, req[c].name, "")
              /\ Plain(req[q].name)
              /\ w[p].body = Substituted(LayoutInEffect(p), req[p].binding, req[c].name,
                                         PlainOutput(req[q].name, req[q].binding, "", 1), 1)

\* the response to the request for page with b1 carries about rendered with b2
C2_Witness ==
    \E p \in Procs, q \in Procs :
        /\ p # q
        /\ Did(p, "HTML")
        /\ req[p].name = "page" /\ req[p].binding = "b1"
        /\ req[q].name = "about" /\ req[q].binding = "b2"
        /\ LayoutInEffect(p) = "layout"
        /\ LayoutInEffect(q) = "layout"
        /\ w[p].code = 200
        /\ w[p].body = <<"<html>", "about", "b2", "<h2>", "</html>">>

\* the value goroutine p handed to JSON or XML does not marshal
MarshalFails(p) == req[p].v = <<"chan">>

\* the Content-Type and the prefix of the format of the call of goroutine p
FormatType(p) == IF req[p].op = "JSON" THEN "application/json" ELSE "text/xml"

FormatPrefix(p) == IF req[p].op = "JSON" THEN opt.PrefixJSON ELSE opt.PrefixXML

(***************************************************************************)
(* C3.  JSON and XML, when marshaling the value fails: the requested       *)
(* status is not written, the format's Content-Type is not set, the prefix *)
(* is not written; the response is status 500 with http.Error's plain-text *)
(* Content-Type and the error message, newline-terminated, as the body.    *)
(***************************************************************************)
C3_MarshalFailureIs500 ==
    \A p \in Procs :
        ((Did(p, "JSON") \/ Did(p, "XML")) /\ MarshalFails(p))
        => /\ w[p].code = 500
           /\ w[p].sent[ContentType] = "text/plain; charset=utf-8"
           /\ Len(w[p].body) = 2
           /\ w[p].body[1] \in {"json: unsupported type: chan int", "xml: unsupported type: chan int"}
           /\ w[p].body[2] = "\n"
           /\ \A i \in DOMAIN w[p].log :
                 LET e == w[p].log[i]
                 IN /\ e.op = "WriteHeader" => e.code = 500
                    /\ e.op = "Header.Set" => e.v \notin {FormatType(p) \o CharsetSuffix}
                    /\ e.op = "Write" => (e.b # FormatPrefix(p) /\ e.b = w[p].body)

\* a JSON call for status 404 and a value that does not marshal, under a
\* configured prefix
C3_Witness ==
    /\ Did(1, "JSON")
    /\ MarshalFails(1)
    /\ req[1].status = 404
    /\ opt.PrefixJSON # <<>>
    /\ w[1].code = 500

(***************************************************************************)
(* C6.  Text and Data: a Content-Type the response holds when the call     *)
(* starts stays as it is, and without one Text sets text/plain with the    *)
(* resolved charset and Data application/octet-stream; either way the      *)
(* requested status and then the given bytes are written, and nothing      *)
(* else.                                                                   *)
(***************************************************************************)
C6_TextDataKeepContentType ==
    \A p \in Procs :
        (Did(p, "Text") \/ Did(p, "Data"))
        => LET default == IF req[p].op = "Text"
                          THEN "text/plain" \o CharsetSuffix
                          ELSE "application/octet-stream"
               set == IF req[p].preset # ""
                      THEN <<>>
                      ELSE <<LogEntry("Header.Set", "Content-Type", default, 0, <<>>)>>
           IN /\ w[p].sent[ContentType] = (IF req[p].preset # "" THEN req[p].preset ELSE default)
              /\ w[p].code = req[p].status
              /\ w[p].body = req[p].v
              /\ w[p].log = set \o <<LogEntry("WriteHeader", "", "", req[p].status, <<>>),
                                     LogEntry("Write", "", "", 0, req[p].v)>>

\* a Text call on a response whose Content-Type the caller has set
C6_Witness ==
    /\ Did(1, "Text")
    /\ req[1].preset = "image/png"
    /\ req[1].v = <<"raw">>
    /\ w[1].sent[ContentType] = "image/png"

(***************************************************************************)
(* C7.  Redirect without a status code issues a 302 to the location; with  *)
(* one status code (one list entry in the instance API, a status that is   *)
(* not 0 in the function API) it issues the redirect with that code.       *)
(***************************************************************************)
C7_RedirectCode ==
    \A p \in Procs :
        /\ Did(p, "Redirect")
           => /\ w[p].sent["Location"] = req[p].name
              /\ Len(req[p].codes) = 0 => w[p].code = 302
              /\ Len(req[p].codes) = 1 => w[p].code = req[p].codes[1]
        /\ Did(p, "RedirectFunc")
           => /\ w[p].sent["Location"] = req[p].name
              /\ req[p].status = 0 => w[p].code = 302
              /\ req[p].status # 0 => w[p].code = req[p].status

\* a redirect with the explicit status 307
C7_Witness ==
    /\ Did(1, "Redirect")
    /\ req[1].codes = <<307>>
    /\ w[1].code = 307
    /\ w[1].sent["Location"] = "/login"

(***************************************************************************)
(* C8.  JSON and XML, when the value marshals: Content-Type is set to the  *)
(* format's media type followed by "; charset=" and the configured charset *)
(* (UTF-8 when none is), then the requested status is written once, then   *)
(* the body: the configured prefix, if any, and right after it the         *)
(* marshaled payload.                                                      *)
(***************************************************************************)
C8_MarshaledResponseOrder ==
    \A p \in Procs :
        ((Did(p, "JSON") \/ Did(p, "XML")) /\ ~MarshalFails(p))
        => LET payload == Marshal(IF req[p].op = "JSON" THEN "json" ELSE "xml",
                                  IF req[p].op = "JSON" THEN opt.IndentJSON ELSE opt.IndentXML,
                                  req[p].v[1]).result
               prefix == FormatPrefix(p)
           IN /\ w[p].sent[ContentType] = FormatType(p) \o CharsetSuffix
              /\ w[p].code = req[p].status
              /\ w[p].body = prefix \o payload
              /\ w[p].log = <<LogEntry("Header.Set", "Content-Type", FormatType(p) \o CharsetSuffix, 0, <<>>),
                              LogEntry("WriteHeader", "", "", req[p].status, <<>>)>>
                            \o (IF prefix = <<>> THEN <<>> ELSE <<LogEntry("Write", "", "", 0, prefix)>>)
                            \o <<LogEntry("Write", "", "", 0, payload)>>

\* an XML call under a configured prefix and charset
C8_Witness ==
    /\ Did(1, "XML")
    /\ opt.PrefixXML = <<"<?xml?>">>
    /\ req[1].v = <<"v2">>
    /\ req[1].status = 404
    /\ w[1].code = 404
    /\ w[1].sent[ContentType] = "text/xml; charset=GBK"
    /\ w[1].body = <<"<?xml?>", "xml", "{\n  ", "v2", "\n}">>

\* what templates write: their texts and the bindings
OutputTokens ==
    (Bindings \cup UNION {{TemplateSet[n][i].s : i \in DOMAIN TemplateSet[n]} : n \in TemplateNames})
    \ {""}

(***************************************************************************)
(* C4.  An HTML call whose template execution fails: an unknown target or  *)
(* layout name makes the execution fail, and every failed execution ends   *)
(* in a returned call (no crash) whose response is status 500 with the     *)
(* error text, newline-terminated, as the body, without the HTML           *)
(* Content-Type, without the requested status and without any output of a  *)
(* template.                                                               *)
(***************************************************************************)
C4_ExecutionFailureIs500 ==
    \A p \in Procs :
        LET lay == LayoutInEffect(p)
            unknown == \/ lay # "" /\ lay \notin TemplateNames
                       \/ lay = "" /\ req[p].name \notin TemplateNames
                       \/ lay = "layout" /\ req[p].name \notin TemplateNames
        IN /\ (Did(p, "HTML") /\ unknown) => call[p].err # <<>>
           /\ (req[p].op = "HTML" /\ call[p].err # <<>>)
              => /\ pc[p] = "done"
                 /\ w[p].code = 500
                 /\ w[p].sent[ContentType] = "text/plain; charset=utf-8"
                 /\ w[p].body = call[p].err \o <<"\n">>
                 /\ \A i \in DOMAIN w[p].body : w[p].body[i] \notin OutputTokens
                 /\ \A i \in DOMAIN w[p].log :
                       LET e == w[p].log[i]
                       IN /\ e.op = "WriteHeader" => e.code = 500
                          /\ e.op = "Header.Set" => e.v # opt.HTMLContentType \o CharsetSuffix

\* the layout has written its opening text and the target its own when the
\* target's execution fails
C4_Witness ==
    /\ Did(1, "HTML")
    /\ LayoutInEffect(1) = "layout"
    /\ req[1].name = "bad"
    /\ req[1].status = 200
    /\ call[1].err = <<"template: layout: error calling yield: ", "template: bad: runtime error">>
    /\ w[1].code = 500

\* the execution of a template to its end under the function map fns
RECURSIVE RunAll(_, _)
RunAll(o, fns) ==
    IF o.kind = "run" THEN RunAll(StepNode(o.st, fns), fns) ELSE o

(***************************************************************************)
(* C5.  An HTML call with no layout in effect, after any earlier calls,    *)
(* responds as the execution of the named template against the template   *)
(* set as compiled at startup does: yield fails with "yield called with no *)
(* layout defined" and current gives the empty string.                     *)
(***************************************************************************)
C5_NoLayoutUsesStartupFuncs ==
    \A p \in Procs :
        (Did(p, "HTML") /\ LayoutInEffect(p) = "")
        => LET o == RunAll(ExecuteTemplate(req[p].name, req[p].binding), helperFuncs)
           IN IF o.kind = "ok"
              THEN w[p].code = req[p].status /\ w[p].body = o.st[1].buf
              ELSE w[p].code = 500 /\ w[p].body = o.err \o <<"\n">>

(***************************************************************************)
(* C9.  Whenever no HTML call is in progress, no buffer is checked out of  *)
(* the pool and not returned.                                              *)
(***************************************************************************)
C9_NoBufferOutstanding ==
    (\A p \in Procs : pc[p] \in {"idle", "done"}) => buffer.out = 0

(***************************************************************************)
(* C10.  The layout in effect for an HTML call is the Layout of the first  *)
(* per-call HTMLOptions when there is one, the configured Layout           *)
(* otherwise; addYield is called and the layout is the template executed   *)
(* exactly when that name is not empty, and when it is empty the target is *)
(* executed and the function map of the shared template set is as the call *)
(* found it.                                                               *)
(***************************************************************************)
C10_LayoutInEffect ==
    \A p \in Procs :
        (req[p].op = "HTML" /\ pc[p] \in {"run", "done", "overflow"})
        => LET lay == LayoutInEffect(p)
           IN /\ call[p].addYield <=> lay # ""
              /\ call[p].name = (IF lay # "" THEN lay ELSE req[p].name)
              /\ lay = "" => funcs = call[p].funcs0

\* a per-call HTMLOptions with an empty Layout under a configured layout,
\* after a layout render
C10_Witness ==
    /\ Did(1, "HTML")
    /\ opt.Layout = "layout"
    /\ req[1].htmlOpt = <<"">>
    /\ req[1].name = "page"
    /\ ~call[1].addYield
    /\ funcs.yield = Closure(TRUE, "about", "b1")
    /\ w[1].body = <<"<h1>", "b2">>

(***************************************************************************)
(* Template set construction, as the specification words it.               *)
(***************************************************************************)
\* the place of the first "." of a path; 0 when it has none
FirstDot(f) ==
    IF \E i \in DOMAIN f : f[i] = "."
    THEN CHOOSE i \in DOMAIN f : f[i] = "." /\ \A j \in 1..(i - 1) : f[j] # "."
    ELSE 0

\* the substring of the path from its first "." on is a configured extension
Recognized(f) ==
    /\ FirstDot(f) > 0
    /\ \E i \in DOMAIN tree.Extensions :
          tree.Extensions[i] = SubSeq(f, FirstDot(f), Len(f))

\* the path with that substring stripped and its separators made "/"
DerivedName(f) ==
    LET stem == SubSeq(f, 1, FirstDot(f) - 1)
    IN [i \in DOMAIN stem |-> IF stem[i] = tree.Separator THEN "/" ELSE stem[i]]

\* Walk visits file f before file g
WalkedBefore(f, g) ==
    \E i, j \in DOMAIN TreeFiles :
        /\ i < j
        /\ OSPath(TreeFiles[i], tree.Separator) = f
        /\ OSPath(TreeFiles[j], tree.Separator) = g

\* the file has a template of the set
InSet(f) == \E e \in t : e.file = f

\* C11 as stated: once the template set is constructed, a file of the tree
\* is in the set exactly when the substring of its relative path from the
\* first "." on is a configured extension, and it is then under the relative
\* path with that substring stripped and the separators made "/"
C11_FileInSetIffRecognized ==
    walk.state = "compiled" =>
        \A f \in tree.files :
            /\ InSet(f) <=> Recognized(f)
            /\ InSet(f) => [name |-> DerivedName(f), file |-> f] \in t

\* C11 amended: once the template set is constructed, every file whose
\* relative path from the first "." on is a configured extension has been
\* registered under the relative path with that substring stripped and the
\* separators made "/", so that name is in the set; the set holds one
\* template under a name, namely that of the last file Walk visited among
\* those registered under it; and no other file has a template
C11_LastRecognizedFileHoldsName ==
    walk.state = "compiled" =>
        /\ \A f \in tree.files :
              Recognized(f) => \E e \in t : e.name = DerivedName(f) /\ e.file # <<>>
        /\ \A e \in t :
              e.file # <<>> =>
                  /\ e.file \in tree.files
                  /\ Recognized(e.file)
                  /\ e.name = DerivedName(e.file)
                  /\ \A g \in tree.files :
                        Recognized(g) /\ DerivedName(g) = e.name
                            => g = e.file \/ WalkedBefore(g, e.file)
        /\ \A e1, e2 \in t : e1.name = e2.name => e1 = e2

\* on Windows two files give the name "a" and a.tmpl, visited last, holds it;
\* base\header.tmpl is under base/header
C11_Witness ==
    /\ walk.state = "compiled"
    /\ tree.Separator = "\\"
    /\ tree.files = {<<"a", ".", "html">>, <<"a", ".", "tmpl">>,
                     <<"base", "\\", "header", ".", "tmpl">>}
    /\ t = {[name |-> Directory, file |-> <<>>],
            [name |-> <<"a">>, file |-> <<"a", ".", "tmpl">>],
            [name |-> <<"base", "/", "header">>,
             file |-> <<"base", "\\", "header", ".", "tmpl">>]}

(***************************************************************************)
(* C12.  Every HTML call terminates and writes exactly one response.       *)
(***************************************************************************)
\* the WriteHeader calls made on the response of goroutine p
HeadersWritten(p) == {i \in DOMAIN w[p].log : w[p].log[i].op = "WriteHeader"}

\* C12 as stated: every HTML call, whatever its target and its layout, the
\* target being the layout in effect included, comes to its end after
\* finitely many template executions, its executions never nesting until the
\* goroutine's stack is exhausted, and has then written exactly one response,
\* the page with the requested status or a 500
C12_HTMLTerminatesWithOneResponse ==
    \A p \in Procs :
        /\ pc[p] # "overflow"
        /\ Did(p, "HTML") =>
              /\ Cardinality(HeadersWritten(p)) = 1
              /\ w[p].code \in {req[p].status, StatusInternalServerError}

====
